---- MODULE Spec2Model ----
(***************************************************************************)
(* A model of src/app.py, the Streamlit page "AI stock analysis": the       *)
(* environment set-up, the cached report generator run_investment_analysis, *)
(* the price extraction (two regular expressions and parse_p), the chart    *)
(* renderer plot_stock_chart and the button handler that strings them       *)
(* together.                                                                *)
(*                                                                          *)
(* Characters are one-element strings.  The Hangul syllables of the two     *)
(* labels are written by their romanisation: "mok","pyo","ga" is the        *)
(* target-price label of line 149 and "son","jeol","ga" the stop-loss label *)
(* of line 150.  "nl" is a line feed, "x" any character that none of the    *)
(* patterns mentions.                                                       *)
(*                                                                          *)
(* A float is the pair <<m, k>> standing for m / 10^k with trailing zeros   *)
(* of the fraction removed; for the short literals of this model the        *)
(* decimal-to-double conversion is injective, so equality of pairs is       *)
(* equality of the Python floats.                                           *)
(*                                                                          *)
(* The call ChatGoogleGenerativeAI( of lines 43-47 has no closing           *)
(* parenthesis in the source; the model reads it as closed after its last   *)
(* keyword argument, so that the statements of lines 50-97 are the body of  *)
(* run_investment_analysis.                                                 *)
(***************************************************************************)
EXTENDS Integers, Sequences, FiniteSets, TLC

\* Python's None where a float or a match group is expected (both are tuples)
None == <<>>

(***************************************************************************)
(* Bounds of the model.                                                     *)
(***************************************************************************)
\* longest numeric run enumerated after a label
MaxNumLen == 3
\* button presses per session
MaxRuns == 2
\* clock advances per session
MaxTicks == 2

(***************************************************************************)
(* Program constants.                                                       *)
(***************************************************************************)
\* @st.cache_data(ttl=3600): seconds an entry stays usable
ttl == 3600

\* the two secrets of lines 17-18
Secrets == {"GEMINI_API_KEY", "SERPER_API_KEY"}

\* the options of the selectbox of line 138 that the model enumerates
RiskOptions == {"Lowest risk", "Mid risk"}

(***************************************************************************)
(* Characters and the character classes of the two patterns.                *)
(***************************************************************************)
Digits == {"0", "1", "2", "3", "4", "5", "6", "7", "8", "9"}

DigitValue(c) ==
    CASE c = "0" -> 0 [] c = "1" -> 1 [] c = "2" -> 2 [] c = "3" -> 3
      [] c = "4" -> 4 [] c = "5" -> 5 [] c = "6" -> 6 [] c = "7" -> 7
      [] c = "8" -> 8 [] c = "9" -> 9

\* [:\s]
IsSepChar(c) == c \in {":", " ", "nl"}

\* [\d,.]
IsNumChar(c) == c \in Digits \cup {",", "."}

TargetLabel == <<"mok", "pyo", "ga">>
StopLabel == <<"son", "jeol", "ga">>

(***************************************************************************)
(* re.search(label + r'[:\s]*\$?([\d,.]+)', text)                           *)
(*                                                                          *)
(* The three classes [:\s], \$ and [\d,.] are pairwise disjoint, so at a    *)
(* given start the greedy match is the only candidate: backtracking into    *)
(* the separators or the dollar sign can never make the group match.        *)
(***************************************************************************)
LabelAt(text, label, i) ==
    /\ i + Len(label) - 1 <= Len(text)
    /\ \A j \in 1..Len(label) : text[i + j - 1] = label[j]

\* [:\s]* from i: the first position >= i that holds no separator
RECURSIVE SkipSeps(_, _)
SkipSeps(text, i) ==
    IF i <= Len(text) /\ IsSepChar(text[i]) THEN SkipSeps(text, i + 1) ELSE i

\* [\d,.]* from i: the first position >= i that holds no numeric character
RECURSIVE SkipNums(_, _)
SkipNums(text, i) ==
    IF i <= Len(text) /\ IsNumChar(text[i]) THEN SkipNums(text, i + 1) ELSE i

SkipDollar(text, i) == IF i <= Len(text) /\ text[i] = "$" THEN i + 1 ELSE i

\* position of the group's first character when the pattern matches at i
GroupStart(text, label, i) ==
    SkipDollar(text, SkipSeps(text, i + Len(label)))

GroupEnd(text, label, i) ==
    SkipNums(text, GroupStart(text, label, i)) - 1

MatchAt(text, label, i) ==
    /\ LabelAt(text, label, i)
    /\ GroupEnd(text, label, i) >= GroupStart(text, label, i)

\* m.group(1) of the leftmost match, or None
Search(text, label) ==
    LET starts == {i \in 1..Len(text) : MatchAt(text, label, i)}
    IN  IF starts = {} THEN None
        ELSE LET i == CHOOSE s \in starts : \A o \in starts : s <= o
             IN  SubSeq(text, GroupStart(text, label, i), GroupEnd(text, label, i))

(***************************************************************************)
(* parse_p: float(m.group(1).replace(',', '')) if m else None               *)
(***************************************************************************)
\* str.replace(',', '')
RemoveCommas(s) == SelectSeq(s, LAMBDA c : c # ",")

CountDots(s) == Cardinality({i \in 1..Len(s) : s[i] = "."})

\* float() accepts digits with at most one point and at least one digit
FloatOk(s) ==
    /\ CountDots(s) <= 1
    /\ \E i \in 1..Len(s) : s[i] \in Digits

RECURSIVE DigitsValue(_)
DigitsValue(s) ==
    IF s = <<>> THEN 0
    ELSE 10 * DigitsValue(SubSeq(s, 1, Len(s) - 1)) + DigitValue(s[Len(s)])

RECURSIVE Normalise(_, _)
Normalise(m, k) ==
    IF k > 0 /\ m % 10 = 0 THEN Normalise(m \div 10, k - 1) ELSE <<m, k>>

FractionLen(s) ==
    IF CountDots(s) = 0 THEN 0
    ELSE Len(s) - (CHOOSE i \in 1..Len(s) : s[i] = ".")

\* float(s) for an s that FloatOk accepts
FloatOf(s) ==
    Normalise(DigitsValue(SelectSeq(s, LAMBDA c : c # ".")), FractionLen(s))

\* float() raises ValueError inside parse_p
ParseRaises(m) == m # None /\ ~FloatOk(RemoveCommas(m))

\* the value parse_p returns when it does not raise
parse_p(m) == IF m = None THEN None ELSE FloatOf(RemoveCommas(m))

\* Python truth value of an optional float: None and 0.0 are false
Truthy(v) == v # None /\ v[1] # 0

(***************************************************************************)
(* The inputs the model enumerates.                                         *)
(***************************************************************************)
\* str.upper() on the letters the tickers of the model are written with
UpperChar(c) ==
    CASE c = "n" -> "N" [] c = "v" -> "V" [] c = "d" -> "D"
      [] c = "a" -> "A" [] c = "m" -> "M" [] OTHER -> c

Upper(s) == [i \in 1..Len(s) |-> UpperChar(s[i])]

\* NormaliseTicker with the .upper() call left out
NormaliseTickerAsTyped(typed) == typed

\* st.text_input("...", value="NVDA").upper()
NormaliseTicker(typed) == Upper(typed)

DefaultTicker == <<"N", "V", "D", "A">>

\* what the user may type into the ticker field
TickerInputs == {<<"n", "v", "d", "a">>, DefaultTicker, <<"a", "m", "d">>}

\* reports crew.kickoff may return in the page model
ReportBoth ==
    TargetLabel \o <<":", " ", "$", "2", "2", "0", "nl">>
        \o StopLabel \o <<":", " ", "$", "1", "9", "0">>
ReportMalformed == TargetLabel \o <<":", " ", "1", ".", "2", ".">>

Reports == {ReportBoth, ReportMalformed}

\* yf.download: raises, returns an empty frame, or returns rows
DownloadOutcomes == {"raised", "empty", "rows"}

(***************************************************************************)
(* The state of the page and of the process.                                *)
(***************************************************************************)
VARIABLES
    osEnviron,    \* the names os.environ holds once load_dotenv() has run
    pc,           \* where the script is
    formShown,    \* the sidebar form has been drawn
    tickerText,   \* the text typed into the ticker field
    stocks,       \* line 137
    risk,         \* line 138
    runs,         \* button presses so far
    clock,        \* seconds since launch
    ticks,        \* clock advances so far
    cache,        \* the entries of st.cache_data for run_investment_analysis
    bodyRan,      \* this run executed the body of run_investment_analysis
    kickoffRan,   \* this run called crew.kickoff
    result_text,  \* line 146
    t_val,        \* line 155
    s_val,        \* line 156
    df,           \* what yf.download gave this run
    chartExc,     \* the exception plot_stock_chart caught this run
    chartPane,    \* what col_chart shows under its heading
    chartLines,   \* the horizontal lines of the drawn figure
    chartTicker,  \* the ticker the chart stage was called with
    reportShown,  \* col_text shows a report
    reportPane,   \* the report col_text shows
    success,      \* st.success of line 167 was drawn
    topError,     \* the exception st.error of line 171 reports
    spinner       \* the spinner of line 144 is on

vars ==
    <<osEnviron, pc, formShown, tickerText, stocks, risk,
      runs, clock, ticks, cache, bodyRan, kickoffRan, result_text, t_val,
      s_val, df, chartExc, chartPane, chartLines, chartTicker, reportShown,
      reportPane, success, topError, spinner>>

formVars == <<tickerText, stocks, risk>>
timeVars == <<clock, ticks>>
genVars == <<bodyRan, kickoffRan, result_text>>
priceVars == <<t_val, s_val>>
chartVars == <<df, chartExc, chartPane, chartLines, chartTicker>>
reportVars == <<reportShown, reportPane, success>>

\* the output of a run that has drawn nothing yet
BlankPage ==
    /\ bodyRan' = FALSE
    /\ kickoffRan' = FALSE
    /\ result_text' = <<>>
    /\ t_val' = None
    /\ s_val' = None
    /\ df' = "unset"
    /\ chartExc' = "none"
    /\ chartPane' = "blank"
    /\ chartLines' = {}
    /\ chartTicker' = <<>>
    /\ reportShown' = FALSE
    /\ reportPane' = <<>>
    /\ success' = FALSE
    /\ topError' = "none"

Init ==
    /\ osEnviron \in SUBSET Secrets
    /\ pc = "launch"
    /\ formShown = FALSE
    /\ tickerText = DefaultTicker
    /\ stocks = <<>>
    /\ risk = "Lowest risk"
    /\ runs = 0
    /\ clock = 0
    /\ ticks = 0
    /\ cache = {}
    /\ bodyRan = FALSE
    /\ kickoffRan = FALSE
    /\ result_text = <<>>
    /\ t_val = None
    /\ s_val = None
    /\ df = "unset"
    /\ chartExc = "none"
    /\ chartPane = "blank"
    /\ chartLines = {}
    /\ chartTicker = <<>>
    /\ reportShown = FALSE
    /\ reportPane = <<>>
    /\ success = FALSE
    /\ topError = "none"
    /\ spinner = FALSE

(***************************************************************************)
(* Lines 15-18 and 133-139: the first run of the script.                    *)
(***************************************************************************)
\* EnvSetupRaises with line 18 reading the key with a default value
EnvSetupRaisesFirstOnly(env) == "GEMINI_API_KEY" \notin env

\* os.environ[k] = os.getenv(k) raises TypeError when os.getenv(k) is None
EnvSetupRaises(env) ==
    "GEMINI_API_KEY" \notin env \/ "SERPER_API_KEY" \notin env

Launch ==
    /\ pc = "launch"
    /\ IF EnvSetupRaises(osEnviron)
       THEN /\ pc' = "config_error"
            /\ UNCHANGED <<formShown, stocks>>
       ELSE /\ pc' = "idle"
            /\ formShown' = TRUE
            /\ stocks' = NormaliseTicker(tickerText)
    /\ UNCHANGED <<osEnviron, tickerText, risk, runs, timeVars, cache,
                   genVars, priceVars, chartVars, reportVars, topError, spinner>>

(***************************************************************************)
(* Reruns of the script.                                                    *)
(***************************************************************************)
\* the user edits the form: the script reruns with btn false
Interact(typed, choice) ==
    /\ pc \in {"idle", "done"}
    /\ pc' = "idle"
    /\ tickerText' = typed
    /\ stocks' = NormaliseTicker(typed)
    /\ risk' = choice
    /\ BlankPage
    /\ spinner' = FALSE
    /\ UNCHANGED <<osEnviron, formShown, runs, timeVars, cache>>

\* the user presses the button: lines 141-144
Press ==
    /\ pc \in {"idle", "done"}
    /\ runs < MaxRuns
    /\ runs' = runs + 1
    /\ pc' = "generate"
    /\ BlankPage
    /\ spinner' = TRUE
    /\ UNCHANGED <<osEnviron, formShown, formVars, timeVars, cache>>

\* time passes between two steps
Tick(d) ==
    /\ pc \in {"idle", "done"}
    /\ ticks < MaxTicks
    /\ ticks' = ticks + 1
    /\ clock' = clock + d
    /\ UNCHANGED <<osEnviron, pc, formShown, formVars, runs, cache, genVars,
                   priceVars, chartVars, reportVars, topError, spinner>>

\* except Exception as e: st.error(...), lines 169-171
Handle(e) ==
    /\ pc' = "done"
    /\ topError' = e
    /\ spinner' = FALSE

(***************************************************************************)
(* Line 146: run_investment_analysis behind @st.cache_data(ttl=3600).       *)
(***************************************************************************)
\* the cache key of a call: its two arguments
CacheKey(ticker, level) == <<ticker, level>>

\* CacheLookup with the expiry left out: an entry is served for ever
CacheLookupNoExpiry(c, key, now) == {e \in c : e.key = key}

\* the entries of c that a call with this key at time now may be served from
CacheLookup(c, key, now) ==
    {e \in c : e.key = key /\ now - e.stored < ttl}

\* c after the value computed for key at time now is stored
CacheStore(c, key, value, now) ==
    {e \in c : e.key # key}
        \cup {[key |-> key, value |-> value, stored |-> now]}

\* a usable entry: the body is not run
GenerateHit ==
    /\ pc = "generate"
    /\ \E e \in CacheLookup(cache, CacheKey(stocks, risk), clock) :
           result_text' = e.value
    /\ pc' = "extract"
    /\ UNCHANGED <<osEnviron, formShown, formVars, runs, timeVars, cache,
                   bodyRan, kickoffRan, priceVars, chartVars, reportVars,
                   topError, spinner>>

\* no usable entry and yf.Ticker(stock_ticker).info of line 50 raises
GenerateSnapshotRaises ==
    /\ pc = "generate"
    /\ CacheLookup(cache, CacheKey(stocks, risk), clock) = {}
    /\ bodyRan' = TRUE
    /\ Handle("snapshot")
    /\ UNCHANGED <<osEnviron, formShown, formVars, runs, timeVars, cache,
                   kickoffRan, result_text, priceVars, chartVars, reportVars>>

\* no usable entry and crew.kickoff() of line 96 raises
GenerateKickoffRaises ==
    /\ pc = "generate"
    /\ CacheLookup(cache, CacheKey(stocks, risk), clock) = {}
    /\ bodyRan' = TRUE
    /\ kickoffRan' = TRUE
    /\ Handle("kickoff")
    /\ UNCHANGED <<osEnviron, formShown, formVars, runs, timeVars, cache,
                   result_text, priceVars, chartVars, reportVars>>

\* no usable entry and crew.kickoff() returns: the report is stored
GenerateReturns(report) ==
    /\ pc = "generate"
    /\ CacheLookup(cache, CacheKey(stocks, risk), clock) = {}
    /\ bodyRan' = TRUE
    /\ kickoffRan' = TRUE
    /\ result_text' = report
    /\ cache' = CacheStore(cache, CacheKey(stocks, risk), report, clock)
    /\ pc' = "extract"
    /\ UNCHANGED <<osEnviron, formShown, formVars, runs, timeVars, priceVars,
                   chartVars, reportVars, topError, spinner>>

(***************************************************************************)
(* Lines 149-156: the price extraction.                                     *)
(***************************************************************************)
target_match(text) == Search(text, TargetLabel)
stop_match(text) == Search(text, StopLabel)

\* one of the two parse_p calls raises ValueError
ExtractRaises(text) ==
    ParseRaises(target_match(text)) \/ ParseRaises(stop_match(text))

Extract ==
    /\ pc = "extract"
    /\ ~ExtractRaises(result_text)
    /\ t_val' = parse_p(target_match(result_text))
    /\ s_val' = parse_p(stop_match(result_text))
    /\ pc' = "chart"
    /\ UNCHANGED <<osEnviron, formShown, formVars, runs, timeVars, cache,
                   genVars, chartVars, reportVars, topError, spinner>>

ExtractFails ==
    /\ pc = "extract"
    /\ ExtractRaises(result_text)
    /\ Handle("ValueError")
    /\ UNCHANGED <<osEnviron, formShown, formVars, runs, timeVars, cache,
                   genVars, priceVars, chartVars, reportVars>>

(***************************************************************************)
(* Lines 100-130 and 158-160: plot_stock_chart.                             *)
(***************************************************************************)
\* fig.add_hline for each price whose truth value is true, lines 119-125
HLines(target_price, stop_loss) ==
    (IF Truthy(target_price)
        THEN {[kind |-> "target", y |-> target_price]} ELSE {})
    \cup
    (IF Truthy(stop_loss)
        THEN {[kind |-> "stop", y |-> stop_loss]} ELSE {})

\* plot_stock_chart with the df.empty test of lines 106-108 left out
plot_stock_chart_no_empty_test(download, renderRaises, target_price, stop_loss) ==
    IF download = "raised"
    THEN [pane |-> "error", lines |-> {}, exc |-> "download", raised |-> FALSE]
    ELSE IF renderRaises
    THEN [pane |-> "error", lines |-> {}, exc |-> "render", raised |-> FALSE]
    ELSE [pane |-> "chart", lines |-> HLines(target_price, stop_loss),
          exc |-> "none", raised |-> FALSE]

\* plot_stock_chart with "except Exception: pass" for lines 129-130
plot_stock_chart_silent(download, renderRaises, target_price, stop_loss) ==
    IF download = "raised"
    THEN [pane |-> "blank", lines |-> {}, exc |-> "download", raised |-> FALSE]
    ELSE IF download = "empty"
    THEN [pane |-> "warning", lines |-> {}, exc |-> "none", raised |-> FALSE]
    ELSE IF renderRaises
    THEN [pane |-> "blank", lines |-> {}, exc |-> "render", raised |-> FALSE]
    ELSE [pane |-> "chart", lines |-> HLines(target_price, stop_loss),
          exc |-> "none", raised |-> FALSE]

\* plot_stock_chart without the try/except of lines 101 and 129-130
plot_stock_chart_no_try(download, renderRaises, target_price, stop_loss) ==
    IF download = "raised"
    THEN [pane |-> "blank", lines |-> {}, exc |-> "download", raised |-> TRUE]
    ELSE IF download = "empty"
    THEN [pane |-> "warning", lines |-> {}, exc |-> "none", raised |-> FALSE]
    ELSE IF renderRaises
    THEN [pane |-> "blank", lines |-> {}, exc |-> "render", raised |-> TRUE]
    ELSE [pane |-> "chart", lines |-> HLines(target_price, stop_loss),
          exc |-> "none", raised |-> FALSE]

\* what the call leaves on the page and whether it raises to its caller;
\* download is the outcome of yf.download, renderRaises whether a statement
\* of lines 110-128 raises
plot_stock_chart(download, renderRaises, target_price, stop_loss) ==
    IF download = "raised"
    THEN [pane |-> "error", lines |-> {}, exc |-> "download", raised |-> FALSE]
    ELSE IF download = "empty"
    THEN [pane |-> "warning", lines |-> {}, exc |-> "none", raised |-> FALSE]
    ELSE IF renderRaises
    THEN [pane |-> "error", lines |-> {}, exc |-> "render", raised |-> FALSE]
    ELSE [pane |-> "chart", lines |-> HLines(target_price, stop_loss),
          exc |-> "none", raised |-> FALSE]

Chart(download, renderRaises) ==
    /\ pc = "chart"
    /\ LET r == plot_stock_chart(download, renderRaises, t_val, s_val)
       IN  /\ df' = download
           /\ chartExc' = r.exc
           /\ chartTicker' = stocks
           /\ IF r.raised
              THEN /\ Handle(r.exc)
                   /\ UNCHANGED <<chartPane, chartLines>>
              ELSE /\ chartPane' = r.pane
                   /\ chartLines' = r.lines
                   /\ pc' = "report"
                   /\ UNCHANGED <<topError, spinner>>
    /\ UNCHANGED <<osEnviron, formShown, formVars, runs, timeVars, cache,
                   genVars, priceVars, reportVars>>

(***************************************************************************)
(* Lines 162-167: the report pane.                                          *)
(***************************************************************************)
ShowReport ==
    /\ pc = "report"
    /\ reportShown' = TRUE
    /\ reportPane' = result_text
    /\ success' = TRUE
    /\ spinner' = FALSE
    /\ pc' = "done"
    /\ UNCHANGED <<osEnviron, formShown, formVars, runs, timeVars, cache,
                   genVars, priceVars, chartVars, topError>>

(***************************************************************************)
(* The page.                                                                *)
(***************************************************************************)
\* the state of the UI shell as the page shows it: the form alone, the
\* spinner of line 144, st.success of line 167, or st.error of line 171
UiState ==
    IF pc \in {"launch", "config_error"} THEN "Starting"
    ELSE IF pc = "idle" THEN "Idle"
    ELSE IF pc \in {"generate", "extract", "chart", "report"} THEN "Loading"
    ELSE IF success THEN "Result"
    ELSE "Error"

Next ==
    \/ Launch
    \/ \E typed \in TickerInputs, choice \in RiskOptions : Interact(typed, choice)
    \/ Press
    \/ \E d \in {ttl - 1, ttl} : Tick(d)
    \/ GenerateHit
    \/ GenerateSnapshotRaises
    \/ GenerateKickoffRaises
    \/ \E report \in Reports : GenerateReturns(report)
    \/ Extract
    \/ ExtractFails
    \/ \E download \in DownloadOutcomes, renderRaises \in BOOLEAN :
           Chart(download, renderRaises)
    \/ ShowReport

Spec == Init /\ [][Next]_vars

(***************************************************************************)
(* The extraction and the chart on a wide range of report texts: the page   *)
(* at line 149 of its first run, crew.kickoff having returned any of the    *)
(* texts below.                                                             *)
(***************************************************************************)
\* a zero digit, a non-zero digit, the thousands separator, the point
NumAlphabet == {"0", "5", ",", "."}

\* the sequences over alphabet of length 1..n
RECURSIVE SeqsUpTo(_, _)
SeqsUpTo(alphabet, n) ==
    IF n = 0 THEN {}
    ELSE LET shorter == SeqsUpTo(alphabet, n - 1)
         IN  {<<c>> : c \in alphabet} \cup shorter
                 \cup {w \o <<c>> : w \in shorter, c \in alphabet}

NumRuns == SeqsUpTo(NumAlphabet, MaxNumLen)

\* what may stand between a label and its number
Separators ==
    {<<>>, <<":", " ">>, <<":", " ", "$">>, <<"nl">>, <<"$", "$">>, <<"x">>}

TargetParts ==
    {<<>>} \cup {TargetLabel \o sep \o n : sep \in Separators, n \in NumRuns}

StopParts ==
    {<<>>} \cup {StopLabel \o <<":">> \o <<c>> : c \in NumAlphabet}

\* the labelled field "target price: $1,234.56"
TargetField ==
    TargetLabel \o <<":", " ", "$", "1", ",", "2", "3", "4", ".", "5", "6">>

FieldPrefixes ==
    {<<>>, <<"x">>, StopLabel \o <<":", "9", " ">>, TargetLabel \o <<" ", "x">>,
     TargetLabel \o <<":", "7", " ">>}

FieldSuffixes ==
    {<<>>, <<".">>, <<",">>, <<" ", "x">>, <<"7">>, <<".", "nl">>,
     <<"nl">> \o StopLabel \o <<":", "$", "9">>}

ExtractTexts ==
    {t \o <<" ">> \o p : t \in TargetParts, p \in StopParts}
        \cup {a \o TargetField \o z : a \in FieldPrefixes, z \in FieldSuffixes}

ExtractInit ==
    /\ osEnviron = Secrets
    /\ pc = "extract"
    /\ formShown = TRUE
    /\ tickerText = DefaultTicker
    /\ stocks = NormaliseTicker(DefaultTicker)
    /\ risk = "Lowest risk"
    /\ runs = 1
    /\ clock = 0
    /\ ticks = 0
    /\ result_text \in ExtractTexts
    /\ cache = CacheStore({}, CacheKey(stocks, risk), result_text, clock)
    /\ bodyRan = TRUE
    /\ kickoffRan = TRUE
    /\ t_val = None
    /\ s_val = None
    /\ df = "unset"
    /\ chartExc = "none"
    /\ chartPane = "blank"
    /\ chartLines = {}
    /\ chartTicker = <<>>
    /\ reportShown = FALSE
    /\ reportPane = <<>>
    /\ success = FALSE
    /\ topError = "none"
    /\ spinner = TRUE

ExtractNext ==
    \/ Extract
    \/ ExtractFails
    \/ \E download \in DownloadOutcomes, renderRaises \in BOOLEAN :
           Chart(download, renderRaises)
    \/ ShowReport

SpecExtract == ExtractInit /\ [][ExtractNext]_vars

(***************************************************************************)
(* The properties.                                                          *)
(***************************************************************************)
\* the entries a call with the arguments of the current request could use
\* at the current time, and those it finds too old
LiveEntries ==
    {e \in cache : e.key = <<stocks, risk>> /\ clock - e.stored < ttl}
ExpiredEntries ==
    {e \in cache : e.key = <<stocks, risk>> /\ clock - e.stored >= ttl}

\* the step of line 146: the call of run_investment_analysis
CallStep == pc = "generate" /\ pc' # "generate"

FieldIsFirstTarget(text) ==
    \E i \in 1..Len(text) :
        /\ LabelAt(text, TargetLabel, i)
        /\ \A j \in 1..(i - 1) : ~LabelAt(text, TargetLabel, j)
        /\ i + Len(TargetField) - 1 <= Len(text)
        /\ SubSeq(text, i, i + Len(TargetField) - 1) = TargetField
        /\ i + Len(TargetField) <= Len(text) =>
               text[i + Len(TargetField)] \notin Digits

\* C2 as stated: for a report that contains the labelled field
\* "target price: $1,234.56" the extraction yields a target price that is
\* present and equal to 1234.56.
C2_Claim ==
    (pc # "extract" /\ FieldIsFirstTarget(result_text)) =>
        (topError = "none" /\ t_val = <<123456, 2>>)

\* C3 as stated: on a drawn chart, for each field, the dashed line at the
\* extracted price is there exactly when the extraction found the field.
C3_Claim ==
    chartPane = "chart" =>
        /\ target_match(result_text) # None
               <=> [kind |-> "target", y |-> t_val] \in chartLines
        /\ stop_match(result_text) # None
               <=> [kind |-> "stop", y |-> s_val] \in chartLines

\* C4: whenever yf.download returned an empty frame, the chart pane shows
\* the "no data" warning, no figure and no reference line, and nothing was
\* raised to the caller, whatever target and stop-loss were passed.
C4_EmptyHistory ==
    df = "empty" =>
        /\ chartPane = "warning"
        /\ chartLines = {}
        /\ chartExc = "none"
        /\ topError = "none"
        /\ pc \in {"report", "done"}

\* an empty frame with a target price and no stop-loss price
C4_Witness ==
    /\ df = "empty"
    /\ pc = "done"
    /\ Truthy(t_val)
    /\ s_val = None

\* C5: when yf.download or the drawing raises, the chart pane shows the
\* chart error, nothing reaches the handler of line 169, and the report
\* pane then shows the generated report.
C5_ChartErrorInline ==
    chartExc # "none" =>
        /\ chartPane = "error"
        /\ chartLines = {}
        /\ topError = "none"
        /\ pc \in {"report", "done"}
        /\ pc = "done" =>
               (reportShown /\ reportPane = result_text /\ success)

\* a run whose download raised and whose report is on the page
C5_Witness ==
    /\ chartExc = "download"
    /\ pc = "done"
    /\ reportShown
    /\ reportPane = result_text

\* C6: the ticker handed to the generator, used in the cache key and handed
\* to the chart is the upper-case form of the typed text, so that inputs
\* that differ in case only use the same cache entry.
C6_TickerUpper ==
    formShown =>
        /\ stocks = Upper(tickerText)
        /\ \A e \in cache : \E typed \in TickerInputs : e.key[1] = Upper(typed)
        /\ chartTicker # <<>> => chartTicker = Upper(tickerText)
        /\ pc = "extract" =>
               \E e \in cache : e.key = <<Upper(tickerText), risk>>
                                    /\ e.value = result_text

\* "nvda" typed and served from the entry stored under "NVDA"
C6_Witness ==
    /\ tickerText = <<"n", "v", "d", "a">>
    /\ pc = "chart"
    /\ ~bodyRan
    /\ \E e \in cache : e.key = <<DefaultTicker, risk>> /\ e.value = result_text

\* C7 as stated: the page reaches Result only with both the chart and the
\* report on it, and a run in which the chart renderer raised ends in Error.
C7_Original ==
    /\ UiState = "Result" => (chartPane = "chart" /\ reportShown)
    /\ (pc = "done" /\ chartExc # "none") => UiState = "Error"

\* C7 as amended: a button press starts Loading with the form values as the
\* request, which Loading does not change; Loading ends in Result when the
\* generator returned and both prices parsed: the report is shown and the
\* chart pane holds the chart, the "no data" warning or the chart error;
\* Loading ends in Error when the generator or the price parsing raised,
\* never because of the chart renderer; Loading ends in no other way.
C7_UiTransitions ==
    [][/\ (UiState # "Loading" /\ UiState' = "Loading") =>
              /\ UiState \in {"Idle", "Result", "Error"}
              /\ stocks' = Upper(tickerText)
              /\ risk' = risk
       /\ UiState = "Loading" =>
              /\ UiState' \in {"Loading", "Result", "Error"}
              /\ <<tickerText, stocks, risk>>' = <<tickerText, stocks, risk>>
       /\ (UiState = "Loading" /\ UiState' = "Result") =>
              /\ reportShown' /\ reportPane' = result_text
              /\ chartPane' \in {"chart", "warning", "error"}
              /\ topError' = "none"
       /\ (UiState = "Loading" /\ UiState' = "Error") =>
              /\ topError' \in {"snapshot", "kickoff", "ValueError"}
              /\ ~reportShown'
              /\ chartPane' = "blank"]_vars

\* Result reached with the chart error in the chart pane
C7_Witness ==
    /\ UiState = "Result"
    /\ chartPane = "error"
    /\ reportShown

\* C8 as stated: when the generator fails, the chart pane still runs its
\* stage for the requested ticker and shows its own outcome.
C8_Claim ==
    (pc = "done" /\ topError \in {"snapshot", "kickoff"}) =>
        (chartPane # "blank" /\ chartTicker = stocks)

\* C9: with one of the two secrets missing the script stops in lines 17-18:
\* the form is never drawn, no button press happens and no generator,
\* market-data or chart stage runs.
C9_ConfigFailFast ==
    osEnviron # Secrets =>
        /\ pc \in {"launch", "config_error"}
        /\ ~formShown
        /\ runs = 0
        /\ ~bodyRan /\ ~kickoffRan
        /\ df = "unset" /\ chartPane = "blank" /\ ~reportShown

\* the script stopped at line 18: only the search key is missing
C9_Witness ==
    /\ pc = "config_error"
    /\ osEnviron = {"GEMINI_API_KEY"}

\* C10 as stated: once the generator has returned a report, the run ends
\* with that report in the report pane and no error from the extraction.
C10_Claim ==
    (pc = "done" /\ topError \notin {"snapshot", "kickoff"}) =>
        (reportShown /\ reportPane = result_text /\ topError = "none")

====
